---- MODULE Spec2Model ----
(***************************************************************************)
(* Model of the njses-aws-s3 object-store facade (AWSS3Bucket, bucket.ts)  *)
(* and of its blob-to-stream helper (blobToReadable, utils).               *)
(*                                                                         *)
(* The bucket is a map from keys to objects (payload + metadata).  Every   *)
(* `await this.client.send(cmd)` of the facade is one step: the request is *)
(* appended to the caller's request log, the backend executes it and the   *)
(* response decides where the handler continues.  The steps of different   *)
(* callers interleave freely: the facade holds no lock.                    *)
(***************************************************************************)
EXTENDS Integers, Sequences, FiniteSets, TLC

VARIABLES store,      \* the bucket: key -> [payload, meta], for the keys that exist
          pc,         \* per caller: where its pending facade call stands
          call,       \* per caller: the facade call and its arguments
          cur,        \* per caller: putHead's local currentMetadeata
          seen,       \* per caller: ghost, the payload at key when putHead read the head
          before,     \* per caller: ghost, the bucket when its rename call started
          outcome,    \* per caller: how the call ended
          reqs,       \* per caller: the backend requests the call has issued, in order
          blobSize,   \* blobToReadable: blob.size
          chunkSize,  \* blobToReadable: chunkSize
          offset,     \* blobToReadable: the offset cursor
          reading,    \* blobToReadable: a read() is awaiting chunk.arrayBuffer()
          chunks,     \* the byte ranges <<from, to>> pushed so far, in order
          eofs        \* how many times push(null) ran

vars == <<store, pc, call, cur, seen, before, outcome, reqs,
          blobSize, chunkSize, offset, reading, chunks, eofs>>
facadeVars == <<store, pc, call, cur, seen, before, outcome, reqs>>
streamVars == <<blobSize, chunkSize, offset, reading, chunks, eofs>>

----------------------------------------------------------------------------
(* Data *)

Procs == {"c1", "c2"}
EmptyKey == ""
RealKeys == {"a", "b"}
Keys == RealKeys \cup {EmptyKey}
Payloads == {"p", "q"}
Fields == {"f", "g"}
Values == {"1", "2"}
Undefined == "undefined"
NoData == "-"

\* A JavaScript object used as a map: a function on some of the fields.
MapsTo(vals) == UNION {[d -> vals] : d \in SUBSET Fields}
EmptyMap == << >>
\* Metadata = Record<string, string>
Metadata == MapsTo(Values)
\* Partial<M>: a present field may hold undefined
PartialMetadata == MapsTo(Values \cup {Undefined})

\* The fields of a map that hold a defined value.
DefinedKeys(m) == {k \in DOMAIN m : m[k] # Undefined}
\* What reaches the wire: a field holding undefined is not written.
Written(m) == [k \in DefinedKeys(m) |-> m[k]]

Objects == [payload : Payloads, meta : Metadata]
Stores == UNION {[d -> Objects] : d \in SUBSET RealKeys}

Exists(st, k) == k \in DOMAIN st
Without(st, k) == [x \in DOMAIN st \ {k} |-> st[x]]
With(st, k, obj) == [x \in DOMAIN st \cup {k} |-> IF x = k THEN obj ELSE st[x]]

----------------------------------------------------------------------------
(* Requests, as the facade builds them *)

Request(cmd, src, key, directive, metadata, keys, body) ==
    [cmd |-> cmd, src |-> src, key |-> key, directive |-> directive,
     metadata |-> metadata, keys |-> keys, body |-> body]

GetObjectCommand(key) == Request("Get", EmptyKey, key, "-", EmptyMap, {}, NoData)
PutObjectCommand(key, body) == Request("Put", EmptyKey, key, "-", EmptyMap, {}, body)
DeleteObjectCommand(key) == Request("Delete", EmptyKey, key, "-", EmptyMap, {}, NoData)
DeleteObjectsCommand(keys) == Request("DeleteMany", EmptyKey, EmptyKey, "-", EmptyMap, keys, NoData)
HeadObjectCommand(key) == Request("Head", EmptyKey, key, "-", EmptyMap, {}, NoData)
\* copyRaw(oldKey, newKey): no directive means the backend's default, COPY
CopyObjectCommand(oldKey, newKey) ==
    Request("Copy", oldKey, newKey, "COPY", EmptyMap, {}, NoData)
\* copyRaw(key, key, {MetadataDirective: "REPLACE", Metadata: newMetadata})
ReplaceCopyCommand(key, newMetadata) ==
    Request("Copy", key, key, "REPLACE", newMetadata, {}, NoData)

----------------------------------------------------------------------------
(* The client and the storage backend: the responses a request can get,    *)
(* each with the bucket it leaves.  The facade checks no argument itself;   *)
(* a command with an empty Key, an empty copy source or an empty batch is   *)
(* taken to be refused by the client before it is sent, and the refusal to  *)
(* count as a ValidationError (the reading most favourable to the error     *)
(* taxonomy).  Any request that is sent can be rejected (BackendError), and *)
(* a rejected request changes nothing.                                      *)

Reply(resp, st, md) == [resp |-> resp, store |-> st, metadata |-> md]

\* The command names an empty key, or no key at all.
Refused(r) ==
    CASE r.cmd = "DeleteMany" -> r.keys = {} \/ EmptyKey \in r.keys
      [] r.cmd = "Copy" -> r.key = EmptyKey \/ r.src = EmptyKey
      [] OTHER -> r.key = EmptyKey

Served(st, r) ==
    CASE r.cmd = "Get" ->
           IF Exists(st, r.key) THEN Reply("ok", st, st[r.key].meta)
                                ELSE Reply("NotFound", st, EmptyMap)
      [] r.cmd = "Head" ->
           IF Exists(st, r.key) THEN Reply("ok", st, st[r.key].meta)
                                ELSE Reply("NotFound", st, EmptyMap)
      [] r.cmd = "Put" ->
           Reply("ok", With(st, r.key, [payload |-> r.body, meta |-> Written(r.metadata)]),
                 EmptyMap)
      [] r.cmd = "Delete" ->
           Reply("ok", Without(st, r.key), EmptyMap)
      [] r.cmd = "DeleteMany" ->
           Reply("ok", [x \in DOMAIN st \ r.keys |-> st[x]], EmptyMap)
      [] r.cmd = "Copy" ->
           IF ~Exists(st, r.src) THEN Reply("NotFound", st, EmptyMap)
           ELSE Reply("ok",
                      With(st, r.key,
                           [payload |-> st[r.src].payload,
                            meta |-> IF r.directive = "REPLACE" THEN Written(r.metadata)
                                     ELSE st[r.src].meta]),
                      EmptyMap)

Send(st, r) ==
    IF Refused(r) THEN {Reply("ValidationError", st, EmptyMap)}
    ELSE {Served(st, r), Reply("BackendError", st, EmptyMap)}

----------------------------------------------------------------------------
(* The facade: AWSS3Bucket *)

NoCall == [op |-> "none", key |-> EmptyKey, newKey |-> EmptyKey,
           metadata |-> EmptyMap, data |-> NoData, keys |-> {}]
NewCall(op, key, newKey, metadata, data, keys) ==
    [op |-> op, key |-> key, newKey |-> newKey, metadata |-> metadata,
     data |-> data, keys |-> keys]

\* { ...metadata1, ...metadata2 }: every own field of the second object is
\* written over the first, whatever value it holds.
Spread(m1, m2) ==
    [k \in DOMAIN m1 \cup DOMAIN m2 |-> IF k \in DOMAIN m2 THEN m2[k] ELSE m1[k]]

\* Mutant: the update alone is sent, the current metadata is not merged in.
NewMetadataUpdateOnly(currentMetadeata, metadata) == metadata

\* putHead's newMetadata when no mergeMetadata is configured
NewMetadata(currentMetadeata, metadata) == Spread(currentMetadeata, metadata)

\* Mutant: the object is written again instead of copied onto itself.
PutHeadByPut(key, newMetadata) ==
    Request("Put", EmptyKey, key, "-", newMetadata, {}, "p")

\* Mutant: the self-copy without the metadata directive.
PutHeadCopyNoDirective(key, newMetadata) ==
    Request("Copy", key, key, "COPY", newMetadata, {}, NoData)

\* The self-copy putHead issues.
PutHeadCopyCommand(key, newMetadata) == ReplaceCopyCommand(key, newMetadata)

\* Mutant: the copy's source and destination swapped.
RenameCopyCommandSwapped(oldKey, newKey) == CopyObjectCommand(newKey, oldKey)

\* The copy rename issues.
RenameCopyCommand(oldKey, newKey) == CopyObjectCommand(oldKey, newKey)

\* Mutant: no early return.
RenameIsNoopNever(oldKey, newKey) == FALSE

\* rename's early return
RenameIsNoop(oldKey, newKey) == oldKey = newKey

\* Mutant: the copy's failure is swallowed.
RenameContinuesAlways(copyResp) == TRUE

\* rename goes on to deleteRaw only when the awaited copyRaw did not throw.
RenameContinues(copyResp) == copyResp = "ok"

\* Mutant: the head read's failure is swallowed.
PutHeadContinuesAlways(headResp) == TRUE

\* putHead goes on to copyRaw only when the awaited getHead did not throw.
PutHeadContinues(headResp) == headResp = "ok"

Logged(r, rep) == [req |-> r, resp |-> rep.resp]

\* A call that is one awaited request: the request is sent and its outcome is
\* the call's outcome.
OneRequest(p, c, r) ==
    /\ \E rep \in Send(store, r) :
         /\ store' = rep.store
         /\ outcome' = [outcome EXCEPT ![p] = rep.resp]
         /\ reqs' = [reqs EXCEPT ![p] = <<Logged(r, rep)>>]
    /\ pc' = [pc EXCEPT ![p] = "done"]
    /\ call' = [call EXCEPT ![p] = c]
    /\ UNCHANGED <<cur, seen, before, streamVars>>

get(p, key) ==
    /\ pc[p] = "idle"
    /\ OneRequest(p, NewCall("get", key, EmptyKey, EmptyMap, NoData, {}), GetObjectCommand(key))

put(p, key, data) ==
    /\ pc[p] = "idle"
    /\ OneRequest(p, NewCall("put", key, EmptyKey, EmptyMap, data, {}), PutObjectCommand(key, data))

delete(p, key) ==
    /\ pc[p] = "idle"
    /\ OneRequest(p, NewCall("delete", key, EmptyKey, EmptyMap, NoData, {}), DeleteObjectCommand(key))

deleteMany(p, keys) ==
    /\ pc[p] = "idle"
    /\ OneRequest(p, NewCall("deleteMany", EmptyKey, EmptyKey, EmptyMap, NoData, keys),
                  DeleteObjectsCommand(keys))

getHead(p, key) ==
    /\ pc[p] = "idle"
    /\ OneRequest(p, NewCall("getHead", key, EmptyKey, EmptyMap, NoData, {}), HeadObjectCommand(key))

\* rename, up to the end of `await this.copyRaw(oldKey, newKey)`
renameCopy(p, oldKey, newKey) ==
    /\ pc[p] = "idle"
    /\ call' = [call EXCEPT ![p] = NewCall("rename", oldKey, newKey, EmptyMap, NoData, {})]
    /\ before' = [before EXCEPT ![p] = store]
    /\ IF RenameIsNoop(oldKey, newKey)
       THEN /\ pc' = [pc EXCEPT ![p] = "done"]
            /\ outcome' = [outcome EXCEPT ![p] = "ok"]
            /\ reqs' = [reqs EXCEPT ![p] = << >>]
            /\ UNCHANGED store
       ELSE \E rep \in Send(store, RenameCopyCommand(oldKey, newKey)) :
              /\ store' = rep.store
              /\ reqs' = [reqs EXCEPT ![p] = <<Logged(RenameCopyCommand(oldKey, newKey), rep)>>]
              /\ IF RenameContinues(rep.resp)
                 THEN /\ pc' = [pc EXCEPT ![p] = "rename_delete"]
                      /\ UNCHANGED outcome
                 ELSE /\ pc' = [pc EXCEPT ![p] = "done"]
                      /\ outcome' = [outcome EXCEPT ![p] = rep.resp]
    /\ UNCHANGED <<cur, seen, streamVars>>

\* Mutant: the delete's failure is swallowed.
renameDeleteSwallowed(p) ==
    /\ pc[p] = "rename_delete"
    /\ \E rep \in Send(store, DeleteObjectCommand(call[p].key)) :
         /\ store' = rep.store
         /\ reqs' = [reqs EXCEPT ![p] = Append(@, Logged(DeleteObjectCommand(call[p].key), rep))]
    /\ outcome' = [outcome EXCEPT ![p] = "ok"]
    /\ pc' = [pc EXCEPT ![p] = "done"]
    /\ UNCHANGED <<call, cur, seen, before, streamVars>>

\* rename: `await this.deleteRaw(oldKey)`
renameDelete(p) ==
    /\ pc[p] = "rename_delete"
    /\ \E rep \in Send(store, DeleteObjectCommand(call[p].key)) :
         /\ store' = rep.store
         /\ reqs' = [reqs EXCEPT ![p] = Append(@, Logged(DeleteObjectCommand(call[p].key), rep))]
         /\ outcome' = [outcome EXCEPT ![p] = rep.resp]
    /\ pc' = [pc EXCEPT ![p] = "done"]
    /\ UNCHANGED <<call, cur, seen, before, streamVars>>

\* putHead, up to the end of `await this.getHead(key)`
putHeadGetHead(p, key, metadata) ==
    /\ pc[p] = "idle"
    /\ call' = [call EXCEPT ![p] = NewCall("putHead", key, EmptyKey, metadata, NoData, {})]
    /\ \E rep \in Send(store, HeadObjectCommand(key)) :
         /\ store' = rep.store
         /\ reqs' = [reqs EXCEPT ![p] = <<Logged(HeadObjectCommand(key), rep)>>]
         /\ IF PutHeadContinues(rep.resp)
            THEN /\ pc' = [pc EXCEPT ![p] = "putHead_copy"]
                 /\ cur' = [cur EXCEPT ![p] = rep.metadata]
                 /\ seen' = [seen EXCEPT ![p] =
                               IF Exists(store, key) THEN store[key].payload ELSE NoData]
                 /\ UNCHANGED outcome
            ELSE /\ pc' = [pc EXCEPT ![p] = "done"]
                 /\ outcome' = [outcome EXCEPT ![p] = rep.resp]
                 /\ UNCHANGED <<cur, seen>>
    /\ UNCHANGED <<before, streamVars>>

\* putHead: the merge and `await this.copyRaw(key, key, {REPLACE, newMetadata})`
putHeadCopy(p) ==
    /\ pc[p] = "putHead_copy"
    /\ LET r == PutHeadCopyCommand(call[p].key, NewMetadata(cur[p], call[p].metadata))
       IN \E rep \in Send(store, r) :
            /\ store' = rep.store
            /\ reqs' = [reqs EXCEPT ![p] = Append(@, Logged(r, rep))]
            /\ outcome' = [outcome EXCEPT ![p] = rep.resp]
    /\ pc' = [pc EXCEPT ![p] = "done"]
    /\ UNCHANGED <<call, cur, seen, before, streamVars>>

\* The caller takes the call's result; its locals are gone.
return(p) ==
    /\ pc[p] = "done"
    /\ pc' = [pc EXCEPT ![p] = "idle"]
    /\ call' = [call EXCEPT ![p] = NoCall]
    /\ cur' = [cur EXCEPT ![p] = EmptyMap]
    /\ seen' = [seen EXCEPT ![p] = NoData]
    /\ before' = [before EXCEPT ![p] = << >>]
    /\ outcome' = [outcome EXCEPT ![p] = "none"]
    /\ reqs' = [reqs EXCEPT ![p] = << >>]
    /\ UNCHANGED <<store, streamVars>>

----------------------------------------------------------------------------
(* Specifications of the facade *)

StreamIdle ==
    /\ blobSize = 0
    /\ chunkSize = 1
    /\ offset = 0
    /\ reading = FALSE
    /\ chunks = << >>
    /\ eofs = 0

\* A facade on a bucket that holds anything; no call is pending.
Init ==
    /\ store \in Stores
    /\ pc = [p \in Procs |-> "idle"]
    /\ call = [p \in Procs |-> NoCall]
    /\ cur = [p \in Procs |-> EmptyMap]
    /\ seen = [p \in Procs |-> NoData]
    /\ before = [p \in Procs |-> << >>]
    /\ outcome = [p \in Procs |-> "none"]
    /\ reqs = [p \in Procs |-> << >>]
    /\ StreamIdle

\* One caller, one call at a time, every operation.
Next ==
    \E p \in {"c1"} :
       \/ \E a \in Keys, b \in Keys : renameCopy(p, a, b)
       \/ renameDelete(p)
       \/ \E k \in Keys : get(p, k)
       \/ \E k \in Keys, d \in Payloads : put(p, k, d)
       \/ \E k \in Keys : delete(p, k)
       \/ \E ks \in SUBSET Keys : deleteMany(p, ks)
       \/ \E k \in Keys : getHead(p, k)
       \/ \E k \in Keys, m \in PartialMetadata : putHeadGetHead(p, k, m)
       \/ putHeadCopy(p)
       \/ return(p)

Spec == Init /\ [][Next]_vars

\* Two callers whose putHead and put calls on one key interleave; the bucket
\* starts empty, and each caller writes its own value.
ConcKey == "a"
ConcValue(p) == IF p = "c1" THEN "1" ELSE "2"
ConcUpdates(p) == MapsTo({ConcValue(p), Undefined})

InitConc ==
    /\ Init
    /\ store = << >>

NextConc ==
    \E p \in Procs :
       \/ \E d \in Payloads : put(p, ConcKey, d)
       \/ \E m \in ConcUpdates(p) : putHeadGetHead(p, ConcKey, m)
       \/ putHeadCopy(p)
       \/ return(p)

SpecConc == InitConc /\ [][NextConc]_vars

----------------------------------------------------------------------------
(* blobToReadable: the Readable's read() callback.  The stream calls read() *)
(* only while no read() is pending and the end has not been pushed; the     *)
(* callback awaits chunk.arrayBuffer() between computing `end` and pushing. *)

MaxSize == 7
MaxChunk == 4

Min(a, b) == IF a < b THEN a ELSE b

\* offset >= blob.size
AtEnd(off, size) == off >= size

\* Mutant: the end of the chunk is not capped at blob.size.
ChunkEndUncapped(off, csize, size) == off + csize

\* Math.min(offset + chunkSize, blob.size)
ChunkEnd(off, csize, size) == Min(off + csize, size)

\* read(), up to `await chunk.arrayBuffer()` or to push(null)
readStart ==
    /\ ~reading
    /\ eofs = 0
    /\ IF AtEnd(offset, blobSize)
       THEN /\ eofs' = eofs + 1
            /\ UNCHANGED reading
       ELSE /\ reading' = TRUE
            /\ UNCHANGED eofs
    /\ UNCHANGED <<blobSize, chunkSize, offset, chunks, facadeVars>>

\* read(), after the await: push the chunk, then offset = end
readPush ==
    /\ reading
    /\ chunks' = Append(chunks, <<offset, ChunkEnd(offset, chunkSize, blobSize)>>)
    /\ offset' = ChunkEnd(offset, chunkSize, blobSize)
    /\ reading' = FALSE
    /\ UNCHANGED <<blobSize, chunkSize, eofs, facadeVars>>

InitStream ==
    /\ store = << >>
    /\ pc = [p \in Procs |-> "idle"]
    /\ call = [p \in Procs |-> NoCall]
    /\ cur = [p \in Procs |-> EmptyMap]
    /\ seen = [p \in Procs |-> NoData]
    /\ before = [p \in Procs |-> << >>]
    /\ outcome = [p \in Procs |-> "none"]
    /\ reqs = [p \in Procs |-> << >>]
    /\ blobSize \in 0..MaxSize
    /\ chunkSize \in 1..MaxChunk
    /\ offset = 0
    /\ reading = FALSE
    /\ chunks = << >>
    /\ eofs = 0

NextStream == readStart \/ readPush

SpecStream == InitStream /\ [][NextStream]_vars

----------------------------------------------------------------------------
(* Claims about rename *)

IsRename(p) == call[p].op = "rename"
CopyLogged(a, b, resp) ==
    [req |-> Request("Copy", a, b, "COPY", EmptyMap, {}, NoData), resp |-> resp]
DeleteLogged(a, resp) ==
    [req |-> Request("Delete", EmptyKey, a, "-", EmptyMap, {}, NoData), resp |-> resp]

\* C2: a rename(a, b) with a # b whose two requests succeed has issued exactly
\* two requests, the copy from a to b and then the delete of a; while the copy
\* is the only request issued, its response has already been received (ok),
\* and nothing else is ever in the call's request log.
C2_RenameCopyThenDelete ==
    \A p \in Procs :
       (IsRename(p) /\ call[p].key # call[p].newKey) =>
          /\ (pc[p] = "rename_delete" =>
                reqs[p] = <<CopyLogged(call[p].key, call[p].newKey, "ok")>>)
          /\ (pc[p] = "done" /\ outcome[p] = "ok" =>
                reqs[p] = <<CopyLogged(call[p].key, call[p].newKey, "ok"),
                            DeleteLogged(call[p].key, "ok")>>)

C2_Witness ==
    /\ pc["c1"] = "done"
    /\ call["c1"].op = "rename"
    /\ call["c1"].key = "a"
    /\ call["c1"].newKey = "b"
    /\ outcome["c1"] = "ok"
    /\ Len(reqs["c1"]) = 2
    /\ ~Exists(store, "a")
    /\ Exists(store, "b")

\* C3: when rename(a, b), a # b, found an object at a, its copy succeeded and
\* its delete failed, the call ends with the delete's error, the object is
\* at a and at b, and the call issued nothing after the failed delete.
C3_RenameDeleteFails ==
    \A p \in Procs :
       (/\ IsRename(p)
        /\ pc[p] = "done"
        /\ call[p].key # call[p].newKey
        /\ Exists(before[p], call[p].key)
        /\ Len(reqs[p]) >= 2
        /\ reqs[p][1].resp = "ok"
        /\ reqs[p][2].resp # "ok") =>
          /\ outcome[p] = reqs[p][2].resp
          /\ outcome[p] # "ok"
          /\ Len(reqs[p]) = 2
          /\ reqs[p][2].req = DeleteLogged(call[p].key, "ok").req
          /\ Exists(store, call[p].key)
          /\ store[call[p].key] = before[p][call[p].key]
          /\ Exists(store, call[p].newKey)
          /\ store[call[p].newKey].payload = before[p][call[p].key].payload

C3_Witness ==
    /\ pc["c1"] = "done"
    /\ call["c1"].op = "rename"
    /\ call["c1"].key = "a"
    /\ call["c1"].newKey = "b"
    /\ Len(reqs["c1"]) = 2
    /\ reqs["c1"][1].resp = "ok"
    /\ reqs["c1"][2].resp = "BackendError"
    /\ outcome["c1"] = "BackendError"
    /\ Exists(store, "a")
    /\ Exists(store, "b")
    /\ ~Exists(before["c1"], "b")

\* C4: rename(k, k) issues no request and leaves the bucket as it was, whether
\* or not an object is at k.
C4_RenameSameKeyNoop ==
    \A p \in Procs :
       (IsRename(p) /\ call[p].key = call[p].newKey) =>
          /\ pc[p] = "done"
          /\ reqs[p] = << >>
          /\ store = before[p]

C4_Witness ==
    /\ pc["c1"] = "done"
    /\ call["c1"].op = "rename"
    /\ call["c1"].key = "a"
    /\ call["c1"].newKey = "a"
    /\ Exists(store, "a")
    /\ reqs["c1"] = << >>

\* C10: rename never loses an object.  With one caller at a time, the payload
\* that was at a when rename(a, b), a # b, started is at a or at b in every
\* later state of the call; a delete is in the log only after a copy that
\* succeeded; a failed copy ends the call with the copy's error.
C10_RenameKeepsPayload ==
    \A p \in Procs :
       (IsRename(p) /\ call[p].key # call[p].newKey) =>
          /\ Exists(before[p], call[p].key) =>
                \/ /\ Exists(store, call[p].key)
                   /\ store[call[p].key].payload = before[p][call[p].key].payload
                \/ /\ Exists(store, call[p].newKey)
                   /\ store[call[p].newKey].payload = before[p][call[p].key].payload
          /\ Len(reqs[p]) >= 1
          /\ reqs[p][1].req.cmd = "Copy"
          /\ (reqs[p][1].resp # "ok" =>
                /\ Len(reqs[p]) = 1
                /\ pc[p] = "done"
                /\ outcome[p] = reqs[p][1].resp)
          /\ \A i \in 1..Len(reqs[p]) :
                reqs[p][i].req.cmd = "Delete" => (i = 2 /\ reqs[p][1].resp = "ok")

C10_Witness ==
    /\ pc["c1"] = "done"
    /\ call["c1"].op = "rename"
    /\ call["c1"].key = "a"
    /\ call["c1"].newKey = "b"
    /\ Exists(before["c1"], "a")
    /\ Exists(before["c1"], "b")
    /\ before["c1"]["a"].payload # before["c1"]["b"].payload
    /\ outcome["c1"] = "ok"
    /\ ~Exists(store, "a")
    /\ store["b"].payload = before["c1"]["a"].payload

----------------------------------------------------------------------------
(* Claims about putHead *)

IsPutHead(p) == call[p].op = "putHead"
\* The call has issued its self-copy.
Copied(p) == IsPutHead(p) /\ Len(reqs[p]) = 2
\* The metadata map the self-copy carries.
Sent(p) == reqs[p][2].req.metadata
\* The fields of B that override: those holding a defined value.
Overrides(B) == {k \in DOMAIN B : B[k] # Undefined}

\* C1: the map R of putHead's self-copy, from the current metadata A read in
\* step 1 and the partial update B: R[k] = B[k] where B[k] is defined;
\* R[k] = A[k] for the fields of A that B does not override with a defined
\* value; a field that is undefined in B and not in A is not written.
C1_DefaultMergeOverlay ==
    \A p \in Procs :
       Copied(p) =>
          LET A == cur[p]
              B == call[p].metadata
              R == Written(Sent(p))
          IN /\ \A k \in Overrides(B) : k \in DOMAIN R /\ R[k] = B[k]
             /\ \A k \in DOMAIN A \ Overrides(B) : k \in DOMAIN R /\ R[k] = A[k]
             /\ \A k \in DOMAIN B \ (Overrides(B) \cup DOMAIN A) : k \notin DOMAIN R

\* C5: putHead's only write is a self-copy of key with the REPLACE directive
\* and no body; the step that executes it leaves every payload of the bucket
\* as it is at that moment, and when it succeeds the metadata at key is the
\* map it carried.
C5_OnlySelfCopy ==
    \A p \in Procs :
       IsPutHead(p) =>
          \A i \in 1..Len(reqs[p]) :
             LET r == reqs[p][i].req
             IN \/ r.cmd = "Head" /\ r.key = call[p].key /\ i = 1
                \/ /\ r.cmd = "Copy"
                   /\ r.src = call[p].key
                   /\ r.key = call[p].key
                   /\ r.directive = "REPLACE"
                   /\ r.body = NoData
                   /\ i = 2

C5_CopyStep ==
    \A p \in Procs :
       (pc[p] = "putHead_copy" /\ pc'[p] = "done") =>
          /\ DOMAIN store' = DOMAIN store
          /\ \A k \in DOMAIN store : store'[k].payload = store[k].payload
          /\ \A k \in DOMAIN store \ {call[p].key} : store'[k] = store[k]
          /\ outcome'[p] = "ok" =>
                store'[call[p].key].meta = Written(reqs'[p][2].req.metadata)

\* C5: putHead never changes a payload: every request it issues is the head
\* read or the REPLACE self-copy of key, and the copy step keeps the payloads
\* the bucket holds when it executes, overwriting the metadata at key only.
C5_PayloadKept == [](C5_OnlySelfCopy) /\ [][C5_CopyStep]_vars

\* Another caller's put reached the bucket between c1's head read and c1's
\* self-copy: the payload is that put's data, the metadata is c1's map.
C5_Witness ==
    /\ pc["c1"] = "done"
    /\ Copied("c1")
    /\ outcome["c1"] = "ok"
    /\ seen["c1"] = "p"
    /\ pc["c2"] = "done"
    /\ call["c2"].op = "put"
    /\ call["c2"].key = call["c1"].key
    /\ call["c2"].data = "q"
    /\ outcome["c2"] = "ok"
    /\ store[call["c1"].key].payload = "q"
    /\ store[call["c1"].key].meta = Written(Sent("c1"))
    /\ store[call["c1"].key].meta # EmptyMap

\* C6: each self-copy that succeeds sets the metadata at key to the map it
\* carries, which is the merge of what its caller read in step 1 with its
\* update; so once both callers' putHead calls have succeeded, the metadata
\* at key is the map one of the two copies carried.
C6_FinalIsACopy ==
    (\A p \in Procs : pc[p] = "done" /\ Copied(p) /\ outcome[p] = "ok"
                      /\ call[p].key = ConcKey) =>
       /\ Exists(store, ConcKey)
       /\ \E p \in Procs : store[ConcKey].meta = Written(Sent(p))

C6_CopyStep ==
    \A p \in Procs :
       (pc[p] = "putHead_copy" /\ pc'[p] = "done" /\ outcome'[p] = "ok") =>
          /\ reqs'[p][2].req.metadata = Spread(cur[p], call[p].metadata)
          /\ store'[call[p].key].meta = Written(Spread(cur[p], call[p].metadata))

\* C6: with concurrent putHead calls on one key, each successful self-copy
\* writes the map merged from its own step-1 read, and the metadata left when
\* both calls have finished is the map of one of the copies (last one wins).
C6_LastCopyWins == [](C6_FinalIsACopy) /\ [][C6_CopyStep]_vars

\* Lost update: both calls read the empty metadata before either copied; c1
\* wrote f, c2 wrote g, and only g is left.
C6_Witness ==
    /\ \A p \in Procs : pc[p] = "done" /\ Copied(p) /\ outcome[p] = "ok"
    /\ cur["c1"] = EmptyMap
    /\ cur["c2"] = EmptyMap
    /\ call["c1"].metadata = [k \in {"f"} |-> "1"]
    /\ call["c2"].metadata = [k \in {"g"} |-> "2"]
    /\ store[ConcKey].meta = [k \in {"g"} |-> "2"]

\* C9: a putHead whose head read answers NotFound ends with NotFound and has
\* issued no copy; one whose self-copy is rejected ends with the copy's
\* error, BackendError; and no step of a putHead call that fails changes the
\* bucket.
C9_FailureOutcome ==
    \A p \in Procs :
       IsPutHead(p) =>
          /\ (reqs[p][1].resp = "NotFound" =>
                /\ pc[p] = "done"
                /\ outcome[p] = "NotFound"
                /\ Len(reqs[p]) = 1)
          /\ (reqs[p][1].resp # "ok" => Len(reqs[p]) = 1 /\ outcome[p] = reqs[p][1].resp)
          /\ (Len(reqs[p]) = 2 /\ reqs[p][2].resp # "ok" =>
                /\ pc[p] = "done"
                /\ outcome[p] = reqs[p][2].resp)
          /\ (Len(reqs[p]) = 2 /\ reqs[p][2].resp = "BackendError" =>
                outcome[p] = "BackendError")

C9_FailedStep ==
    \A p \in Procs :
       /\ (pc[p] = "idle" /\ call'[p].op = "putHead") => store' = store
       /\ (pc[p] = "putHead_copy" /\ pc'[p] = "done" /\ outcome'[p] # "ok") => store' = store

\* C9: a failing putHead reports the failing step's error (NotFound from the
\* head read with no copy issued, BackendError from a rejected self-copy) and
\* its steps leave the bucket unchanged.
C9_PutHeadFailure == [](C9_FailureOutcome) /\ [][C9_FailedStep]_vars

\* The self-copy was rejected: the object keeps the metadata read in step 1,
\* not the map the copy carried.
C9_Witness ==
    /\ pc["c1"] = "done"
    /\ Copied("c1")
    /\ reqs["c1"][2].resp = "BackendError"
    /\ outcome["c1"] = "BackendError"
    /\ Exists(store, call["c1"].key)
    /\ store[call["c1"].key].meta = cur["c1"]
    /\ Written(Sent("c1")) # cur["c1"]
    /\ pc["c2"] = "idle"

----------------------------------------------------------------------------
(* Claims about the error taxonomy *)

EmptyInput(p) ==
    \/ call[p].op \in {"get", "put", "delete", "getHead", "putHead"} /\ call[p].key = EmptyKey
    \/ call[p].op = "rename" /\ (call[p].key = EmptyKey \/ call[p].newKey = EmptyKey)
    \/ call[p].op = "deleteMany" /\ call[p].keys = {}

\* C8: a call with an empty key, or deleteMany with no keys, ends in a
\* ValidationError.
C8_EmptyInputIsValidationError ==
    \A p \in Procs :
       (pc[p] = "done" /\ EmptyInput(p)) => outcome[p] = "ValidationError"

----------------------------------------------------------------------------
(* Claims about blobToReadable *)

Ceil(s, c) == (s + c - 1) \div c
ChunkLen(i) == chunks[i][2] - chunks[i][1]
RECURSIVE Emitted(_)
Emitted(n) == IF n = 0 THEN 0 ELSE Emitted(n - 1) + ChunkLen(n)

\* C7: the chunks come in blob-offset order with no gap and no overlap, each
\* of chunkSize bytes but possibly the last; once the end is pushed (which
\* happens at most once) the cursor is at blob.size, ceil(S/C) chunks were
\* emitted, the last one holds S mod C bytes (C when that is 0), and the
\* chunks hold S bytes in all.
C7_BlobChunks ==
    LET n == Len(chunks)
    IN /\ eofs <= 1
       /\ n <= Ceil(blobSize, chunkSize)
       /\ n > 0 => chunks[1][1] = 0 /\ chunks[n][2] = offset
       /\ \A i \in 1..n : ChunkLen(i) >= 1 /\ chunks[i][2] <= blobSize
       /\ \A i \in 1..(n - 1) : chunks[i + 1][1] = chunks[i][2] /\ ChunkLen(i) = chunkSize
       /\ eofs = 1 =>
            /\ offset = blobSize
            /\ ~reading
            /\ n = Ceil(blobSize, chunkSize)
            /\ Emitted(n) = blobSize
            /\ n > 0 => ChunkLen(n) = IF blobSize % chunkSize = 0 THEN chunkSize
                                      ELSE blobSize % chunkSize

C7_Witness ==
    /\ eofs = 1
    /\ blobSize = 7
    /\ chunkSize = 3
    /\ Len(chunks) = 3
    /\ ChunkLen(3) = 1

====
